---- MODULE Spec2Model ----
(***************************************************************************)
(* Model of skill-creator/scripts/package_skill.py.                        *)
(*                                                                         *)
(* A string is a sequence of one-character strings, a path is a sequence   *)
(* of names (its components, as pathlib keeps them), str(path) joins the   *)
(* components with "/" (POSIX host).                                       *)
(***************************************************************************)
EXTENDS Naturals, Integers, Sequences, FiniteSets, Bags, TLC

VARIABLES
    \* ---- the pattern matcher run on its own (SpecMatch, SpecList)
    mFile,            \* should_exclude's file_path
    mPatterns,        \* should_exclude's exclude_patterns
    mCalled,          \* should_exclude has been called
    mResult,          \* its return value
    \* ---- the file system
    dirs,             \* the directories (absolute paths)
    files,            \* the regular files (absolute paths)
    rules,            \* the .skillignore file: [readable, content]
    zip,              \* the archive file at the output path: [gen, members]
    fs0,              \* the file system before the invocation (history)
    \* ---- one invocation of main()/package_skill()
    output_dir,       \* the output-directory argument, <<>> when not given
    cwd,              \* the process's working directory
    pc,               \* position in package_skill
    valid,            \* validate_skill's verdict: "unset", "True", "False"
    skill_filename,   \* the archive's path, <<>> before line 144
    exclude_patterns, \* read_skillignore's result
    sinkOpen,         \* the ZipFile is open
    opened,           \* how many times a ZipFile was successfully opened
    visited,          \* the entries rglob has yielded so far
    files_added,
    files_excluded,
    result,           \* package_skill's return value: "pending", "path", "None", "raised"
    exit_code         \* the process's exit code: "running", "0", "1"

mvars == <<mFile, mPatterns, mCalled, mResult>>
fsvars == <<dirs, files, rules, zip, fs0>>
pvars == <<output_dir, cwd, pc, valid, skill_filename, exclude_patterns, sinkOpen,
           opened, visited, files_added, files_excluded, result, exit_code>>
vars == <<mvars, fsvars, pvars>>

(***************************************************************************)
(* Strings                                                                 *)
(***************************************************************************)
SLASH == "/"

\* s.startswith(p)
StartsWith(s, p) == Len(p) <= Len(s) /\ SubSeq(s, 1, Len(p)) = p

\* s.endswith("/")
EndsWithSlash(s) == Len(s) > 0 /\ s[Len(s)] = SLASH

\* "/".join(parts)
RECURSIVE Join(_)
Join(parts) ==
    IF parts = <<>> THEN <<>>
    ELSE IF Len(parts) = 1 THEN parts[1]
    ELSE parts[1] \o <<SLASH>> \o Join(Tail(parts))

\* s.split("/"): empty segments are kept, the result is never empty
RECURSIVE SplitFrom(_, _)
SplitFrom(s, cur) ==
    IF s = <<>> THEN <<cur>>
    ELSE IF Head(s) = SLASH THEN <<cur>> \o SplitFrom(Tail(s), <<>>)
    ELSE SplitFrom(Tail(s), Append(cur, Head(s)))

Split(s) == SplitFrom(s, <<>>)

\* fnmatch.fnmatch(name, pat) on a POSIX host (normcase is the identity):
\* the whole of name against pat, "*" any run of characters ("/" included),
\* "?" any one character, anything else itself.
RECURSIVE fnmatch(_, _)
fnmatch(name, pat) ==
    IF pat = <<>> THEN name = <<>>
    ELSE IF Head(pat) = "*"
        THEN fnmatch(name, Tail(pat)) \/ (name # <<>> /\ fnmatch(Tail(name), pat))
    ELSE IF Head(pat) = "?"
        THEN name # <<>> /\ fnmatch(Tail(name), Tail(pat))
    ELSE name # <<>> /\ Head(name) = Head(pat) /\ fnmatch(Tail(name), Tail(pat))

(***************************************************************************)
(* Paths                                                                   *)
(***************************************************************************)
\* a is b or an ancestor of b
IsPrefix(a, b) == Len(a) <= Len(b) /\ SubSeq(b, 1, Len(a)) = a

\* path.parent
Parent(p) == SubSeq(p, 1, Len(p) - 1)

\* path.name
Name(p) == p[Len(p)]

\* str(file_path.relative_to(base)), for base a prefix of file_path
RelStr(file_path, base) ==
    IF Len(file_path) = Len(base) THEN <<".">>
    ELSE Join(SubSeq(file_path, Len(base) + 1, Len(file_path)))

(***************************************************************************)
(* should_exclude                                                          *)
(***************************************************************************)
\* mutant: the directory pattern compared with the whole path, not its start
DirectoryMatch_exact(rel_path_str, pattern) ==
    /\ EndsWithSlash(pattern)
    /\ rel_path_str \o <<SLASH>> = pattern

\* lines 73-77: a pattern ending in "/"
DirectoryMatch(rel_path_str, pattern) ==
    /\ EndsWithSlash(pattern)
    /\ \/ StartsWith(rel_path_str, pattern)
       \/ StartsWith(rel_path_str \o <<SLASH>>, pattern)

\* lines 80-83: the whole relative path, or the file's name
FileMatch(rel_path_str, name, pattern) ==
    fnmatch(rel_path_str, pattern) \/ fnmatch(name, pattern)

\* mutant: range() one short, the last window is never tested
WindowMatch_short(rel_path_str, pattern) ==
    /\ \E k \in 1..Len(pattern) : pattern[k] = SLASH
    /\ LET pattern_parts == Split(pattern)
           rel_parts == Split(rel_path_str)
       IN \E i \in 0..(Len(rel_parts) - Len(pattern_parts) - 1) :
              fnmatch(Join(SubSeq(rel_parts, i + 1, i + Len(pattern_parts))), pattern)

\* lines 86-94: only for a pattern holding a "/"
WindowMatch(rel_path_str, pattern) ==
    /\ \E k \in 1..Len(pattern) : pattern[k] = SLASH
    /\ LET pattern_parts == Split(pattern)
           rel_parts == Split(rel_path_str)
       IN \E i \in 0..(Len(rel_parts) - Len(pattern_parts)) :
              fnmatch(Join(SubSeq(rel_parts, i + 1, i + Len(pattern_parts))), pattern)

\* the body of the loop, lines 72-94
PatternMatches(rel_path_str, name, pattern) ==
    \/ DirectoryMatch(rel_path_str, pattern)
    \/ FileMatch(rel_path_str, name, pattern)
    \/ WindowMatch(rel_path_str, pattern)

\* mutant: the loop returns after its first pattern, match or not
ExcludeLoop_first(rel_path_str, name, patterns) ==
    IF patterns = <<>> THEN FALSE
    ELSE PatternMatches(rel_path_str, name, Head(patterns))

\* the loop of lines 71-96: the first matching pattern returns True
RECURSIVE ExcludeLoop(_, _, _)
ExcludeLoop(rel_path_str, name, patterns) ==
    IF patterns = <<>> THEN FALSE
    ELSE IF PatternMatches(rel_path_str, name, Head(patterns)) THEN TRUE
    ELSE ExcludeLoop(rel_path_str, name, Tail(patterns))

should_exclude(file_path, skill_path, patterns) ==
    IF patterns = <<>> THEN FALSE
    ELSE IF ~IsPrefix(skill_path, file_path) THEN FALSE   \* relative_to raises ValueError
    ELSE ExcludeLoop(RelStr(file_path, skill_path), Name(file_path), patterns)

(***************************************************************************)
(* read_skillignore                                                        *)
(***************************************************************************)
LineBreaks == {"\n"}
Whitespace == {" ", "\t", "\n"}

\* content.splitlines(): a trailing line break opens no further line
RECURSIVE ScanLines(_, _)
ScanLines(s, cur) ==
    IF s = <<>> THEN (IF cur = <<>> THEN <<>> ELSE <<cur>>)
    ELSE IF Head(s) \in LineBreaks THEN <<cur>> \o ScanLines(Tail(s), <<>>)
    ELSE ScanLines(Tail(s), Append(cur, Head(s)))

splitlines(content) == ScanLines(content, <<>>)

RECURSIVE lstrip(_)
lstrip(s) == IF s # <<>> /\ Head(s) \in Whitespace THEN lstrip(Tail(s)) ELSE s

RECURSIVE rstrip(_)
rstrip(s) ==
    IF s # <<>> /\ s[Len(s)] \in Whitespace THEN rstrip(SubSeq(s, 1, Len(s) - 1)) ELSE s

\* mutant: lstrip() for strip()
strip_left(s) == lstrip(s)

\* line.strip()
strip(s) == rstrip(lstrip(s))

\* the loop of lines 37-41
RECURSIVE CollectPatterns(_)
CollectPatterns(lines) ==
    IF lines = <<>> THEN <<>>
    ELSE LET line == strip(Head(lines))
         IN IF line # <<>> /\ Head(line) # "#"
                THEN <<line>> \o CollectPatterns(Tail(lines))
                ELSE CollectPatterns(Tail(lines))

\* lines 30-44, for the rules file's state: exists() is false, read_text()
\* raises, or the content is read
read_skillignore(exists, rulesFile) ==
    IF ~exists THEN <<>>
    ELSE IF ~rulesFile.readable THEN <<>>
    ELSE CollectPatterns(splitlines(rulesFile.content))

(***************************************************************************)
(* The names and places of the runs                                        *)
(***************************************************************************)
WORK == <<"w">>
OUT == <<"o">>
MY_SKILL == <<"m", "y", "-", "s", "k", "i", "l", "l">>
SkillPath == <<WORK, MY_SKILL>>      \* Path(skill_path).resolve()
OutsideDir == <<OUT>>                \* a directory that is not under SkillPath

\* all strings over chars of length lo..hi
Strings(chars, lo, hi) == UNION {[1..k -> chars] : k \in lo..hi}

(***************************************************************************)
(* should_exclude on its own                                               *)
(***************************************************************************)
MaxPatLen == 3        \* SpecMatch: characters of the pattern
MaxDepth == 4         \* SpecMatch: segments of the relative path
MaxPatterns == 2      \* SpecList: patterns in the list
MaxStemLen == 1       \* SpecList: characters of a pattern before its final "/"
MaxListDepth == 3     \* SpecList: segments of the relative path

PatChars == {"a", "/", "*", "?"}
StemChars == {"a", "*"}
Names == {<<"a">>, <<"b">>, <<"a", "b">>}
ListNames == {<<"a">>, <<"b">>}

\* what read_skillignore can return: stripped, non-empty, no leading "#"
Patterns == Strings(PatChars, 1, MaxPatLen)
ListPatterns ==
    LET stems == Strings(StemChars, 1, MaxStemLen)
    IN stems \cup {s \o <<SLASH>> : s \in stems}

NoArchive == [gen |-> "absent", members |-> EmptyBag]

MainIdle ==
    /\ dirs = {} /\ files = {} /\ rules = [readable |-> TRUE, content |-> <<>>]
    /\ zip = NoArchive /\ fs0 = [files |-> {}, dirs |-> {}, zip |-> NoArchive]
    /\ output_dir = <<>> /\ cwd = OutsideDir /\ pc = "idle" /\ valid = "unset"
    /\ skill_filename = <<>> /\ exclude_patterns = <<>> /\ sinkOpen = FALSE
    /\ opened = 0 /\ visited = {} /\ files_added = 0 /\ files_excluded = 0
    /\ result = "pending" /\ exit_code = "running"

\* one pattern, a file under the root or outside it
InitMatch ==
    /\ \E base \in {SkillPath, OutsideDir} :
       \E rel \in Strings(Names, 1, MaxDepth) : mFile = base \o rel
    /\ \E p \in Patterns : mPatterns = <<p>>
    /\ mCalled = FALSE /\ mResult = FALSE
    /\ MainIdle

\* a list of patterns, a file under the root
InitList ==
    /\ \E rel \in Strings(ListNames, 1, MaxListDepth) : mFile = SkillPath \o rel
    /\ mPatterns \in Strings(ListPatterns, 0, MaxPatterns)
    /\ mCalled = FALSE /\ mResult = FALSE
    /\ MainIdle

\* the call should_exclude(file_path, skill_path, exclude_patterns)
Match ==
    /\ ~mCalled
    /\ mCalled' = TRUE
    /\ mResult' = should_exclude(mFile, SkillPath, mPatterns)
    /\ UNCHANGED <<mFile, mPatterns, fsvars, pvars>>

SpecMatch == InitMatch /\ [][Match]_vars
SpecList == InitList /\ [][Match]_vars

mRel == RelStr(mFile, SkillPath)
mUnderRoot == IsPrefix(SkillPath, mFile)

(***************************************************************************)
(* Claims about should_exclude                                             *)
(***************************************************************************)
HasSlash(p) == \E k \in 1..Len(p) : p[k] = SLASH

\* some window of as many consecutive segments of rel as pat has segments,
\* rejoined with "/", glob-matches pat
HasWindow(rel, pat) ==
    LET pp == Split(pat)
        rp == Split(rel)
        k == Len(pp)
        n == Len(rp)
    IN n >= k /\ \E i \in 1..(n - k + 1) : fnmatch(Join(SubSeq(rp, i, i + k - 1)), pat)

\* the list with the pattern at position i left out
Without(seq, i) == SubSeq(seq, 1, i - 1) \o SubSeq(seq, i + 1, Len(seq))

\* C5: a pattern ending in "/" that the file's relative path starts with
\* excludes the file, whatever the other patterns of the list and wherever
\* the pattern stands in it.
C5_DirectoryAnchor ==
    mCalled =>
        \A i \in 1..Len(mPatterns) :
            (EndsWithSlash(mPatterns[i]) /\ StartsWith(mRel, mPatterns[i])) => mResult

\* C5's case: the anchor is the second pattern and the first one matches nothing
C5_Witness ==
    /\ mCalled /\ mResult /\ Len(mPatterns) = 2
    /\ EndsWithSlash(mPatterns[2]) /\ StartsWith(mRel, mPatterns[2])
    /\ ~should_exclude(mFile, SkillPath, <<mPatterns[1]>>)

\* C6 as stated: for a pattern of any number k >= 1 of segments, a matching
\* window of k consecutive segments of the relative path excludes the file.
C6_AnyWindowExcludes ==
    (mCalled /\ mUnderRoot) => (HasWindow(mRel, mPatterns[1]) => mResult)

\* C6 amended: a matching window excludes the file when the pattern holds a
\* "/" (two segments or more); a pattern without "/" excludes exactly the
\* files whose whole relative path or whose final segment it glob-matches.
C6_WindowNeedsSlash ==
    (mCalled /\ mUnderRoot) =>
        LET p == mPatterns[1]
        IN /\ (HasSlash(p) /\ HasWindow(mRel, p)) => mResult
           /\ ~HasSlash(p) => (mResult <=> (fnmatch(mRel, p) \/ fnmatch(Name(mFile), p)))

\* C6's case: only the window tier matches, at a window that is neither the
\* start of the path nor its end
C6_Witness ==
    /\ mCalled /\ mUnderRoot /\ mResult
    /\ HasSlash(mPatterns[1]) /\ ~EndsWithSlash(mPatterns[1])
    /\ ~fnmatch(mRel, mPatterns[1]) /\ ~fnmatch(Name(mFile), mPatterns[1])
    /\ LET rp == Split(mRel)
       IN /\ Len(rp) = 4
          /\ fnmatch(Join(SubSeq(rp, 2, 3)), mPatterns[1])
          /\ ~fnmatch(Join(SubSeq(rp, 1, 2)), mPatterns[1])
          /\ ~fnmatch(Join(SubSeq(rp, 3, 4)), mPatterns[1])

\* C7: the result is the same for every permutation of the pattern list, it
\* is the disjunction of the results with each pattern alone, and a list
\* with one pattern more never includes a file the shorter list excludes.
C7_OrderIndependent ==
    mCalled =>
        LET n == Len(mPatterns)
        IN /\ \A perm \in Permutations(1..n) :
                  should_exclude(mFile, SkillPath, [i \in 1..n |-> mPatterns[perm[i]]])
                      = mResult
           /\ mResult <=> (\E i \in 1..n : should_exclude(mFile, SkillPath, <<mPatterns[i]>>))
           /\ \A i \in 1..n :
                  should_exclude(mFile, SkillPath, Without(mPatterns, i)) => mResult

\* C7's case: two patterns of which only the second matches
C7_Witness ==
    /\ mCalled /\ mResult /\ Len(mPatterns) = 2
    /\ ~should_exclude(mFile, SkillPath, <<mPatterns[1]>>)
    /\ should_exclude(mFile, SkillPath, <<mPatterns[2]>>)

(***************************************************************************)
(* package_skill and main: one invocation                                  *)
(***************************************************************************)
SKILL_MD == <<"S", "K", "I", "L", "L", ".", "m", "d">>
NOTES_MD == <<"n", "o", "t", "e", "s", ".", "m", "d">>
BUILD == <<"b", "u", "i", "l", "d">>
OUT_BIN == <<"o", "u", "t", ".", "b", "i", "n">>
SKILLIGNORE == <<".", "s", "k", "i", "l", "l", "i", "g", "n", "o", "r", "e">>
DIST == <<"d", "i", "s", "t">>
DOT_SKILL == <<".", "s", "k", "i", "l", "l">>

\* rules files of the packaging runs
RULES_BUILD == <<"b", "u", "i", "l", "d", "/", "\n">>
RULES_SKILL == <<"*", ".", "s", "k", "i", "l", "l">>
RULES_NAME == <<"b", "u", "i", "l", "d", "\n">>
ScenarioContents == {RULES_BUILD, RULES_SKILL, RULES_NAME}

MaxContentLen == 4    \* characters of an enumerated rules file
ContentChars == {"*", "#", " ", "\n"}
EnumeratedContents == Strings(ContentChars, 0, MaxContentLen)

DescriptorPath == Append(SkillPath, SKILL_MD)        \* skill_path / "SKILL.md"
SkillIgnorePath == Append(SkillPath, SKILLIGNORE)    \* skill_path / ".skillignore"
DistDir == Append(SkillPath, DIST)

\* the source trees: what is at SkillPath before the run
TreeKinds == {"missing", "file", "nodescriptor", "minimal", "scenario"}
DirKinds == {"nodescriptor", "minimal", "scenario"}

TreeDirs(kind) ==
    IF kind = "scenario" THEN {SkillPath, Append(SkillPath, BUILD)}
    ELSE IF kind \in DirKinds THEN {SkillPath}
    ELSE {}

TreeFiles(kind) ==
    IF kind = "scenario"
        THEN {DescriptorPath, Append(SkillPath, NOTES_MD), SkillPath \o <<BUILD, OUT_BIN>>}
    ELSE IF kind = "minimal" THEN {DescriptorPath}
    ELSE IF kind = "nodescriptor" THEN {Append(SkillPath, NOTES_MD)}
    ELSE IF kind = "file" THEN {SkillPath}
    ELSE {}

\* the output-directory arguments: none, a directory outside the source, the
\* source itself, a directory inside it, a path that is a regular file
OutputDirs == {<<>>, OutsideDir, SkillPath, DistDir, DescriptorPath}

\* lines 138-142
OutputPath(od, wd) == IF od # <<>> THEN od ELSE wd

\* line 144, with skill_name = skill_path.name
ArchiveFile(od, wd) == Append(OutputPath(od, wd), Name(SkillPath) \o DOT_SKILL)

\* path and its ancestors, the root left out
Ancestry(path) == {SubSeq(path, 1, k) : k \in 1..Len(path)}

Init ==
    /\ mFile = <<>> /\ mPatterns = <<>> /\ mCalled = FALSE /\ mResult = FALSE
    /\ \E kind \in TreeKinds, od \in OutputDirs, wd \in {OutsideDir, SkillPath},
          hasRules \in BOOLEAN, readable \in BOOLEAN,
          content \in ScenarioContents \cup EnumeratedContents,
          distExists \in BOOLEAN, pre \in BOOLEAN :
        LET dirs0 == {<<WORK>>, OutsideDir} \cup TreeDirs(kind)
                         \cup (IF distExists THEN {DistDir} ELSE {})
            files0 == TreeFiles(kind)
                          \cup (IF hasRules THEN {SkillIgnorePath} ELSE {})
                          \cup (IF pre THEN {ArchiveFile(od, wd)} ELSE {})
            zip0 == IF pre THEN [gen |-> "old", members |-> EmptyBag] ELSE NoArchive
        IN \* the working directory is a directory; inside the source only
           \* when no output directory is given
           /\ wd = SkillPath => (kind \in DirKinds /\ od = <<>>)
           /\ (hasRules \/ distExists) => kind \in DirKinds
           /\ distExists => od = DistDir
           /\ ~hasRules => (readable /\ content = <<>>)
           /\ ~readable => content = <<>>
           \* an archive left by an earlier run lies in an existing directory
           /\ pre => OutputPath(od, wd) \in dirs0
           \* the enumerated rules files go with the smallest valid tree
           /\ content \notin ScenarioContents \cup {<<>>} =>
                  (kind = "minimal" /\ od = OutsideDir /\ wd = OutsideDir /\ ~pre)
           /\ dirs = dirs0
           /\ files = files0
           /\ rules = [readable |-> readable, content |-> content]
           /\ zip = zip0
           /\ fs0 = [files |-> files0, dirs |-> dirs0, zip |-> zip0]
           /\ output_dir = od
           /\ cwd = wd
    /\ pc = "start" /\ valid = "unset" /\ skill_filename = <<>>
    /\ exclude_patterns = <<>> /\ sinkOpen = FALSE /\ opened = 0 /\ visited = {}
    /\ files_added = 0 /\ files_excluded = 0
    /\ result = "pending" /\ exit_code = "running"

\* package_skill returns None (lines 115, 119, 125, 133, 180) and main exits
\* with 1 (lines 210-213)
ReturnNone ==
    /\ result' = "None"
    /\ exit_code' = "1"
    /\ pc' = "done"

\* lines 110-125: the path exists, is a directory, holds SKILL.md
CheckSource ==
    /\ pc = "start"
    /\ IF SkillPath \notin dirs \cup files THEN ReturnNone
       ELSE IF SkillPath \notin dirs THEN ReturnNone
       ELSE IF DescriptorPath \notin dirs \cup files THEN ReturnNone
       ELSE pc' = "validate" /\ UNCHANGED <<result, exit_code>>
    /\ UNCHANGED <<mvars, fsvars, output_dir, cwd, valid, skill_filename,
                   exclude_patterns, sinkOpen, opened, visited, files_added,
                   files_excluded>>

\* mutant: the verdict is printed and packaging goes on
Validate_ignored ==
    /\ pc = "validate"
    /\ \E ok \in BOOLEAN : valid' = IF ok THEN "True" ELSE "False"
    /\ pc' = "prepare"
    /\ UNCHANGED <<mvars, fsvars, output_dir, cwd, skill_filename, exclude_patterns,
                   sinkOpen, opened, visited, files_added, files_excluded, result,
                   exit_code>>

\* lines 129-134: the external validator's verdict
Validate ==
    /\ pc = "validate"
    /\ \E ok \in BOOLEAN :
        /\ valid' = IF ok THEN "True" ELSE "False"
        /\ IF ok THEN pc' = "prepare" /\ UNCHANGED <<result, exit_code>>
                 ELSE ReturnNone
    /\ UNCHANGED <<mvars, fsvars, output_dir, cwd, skill_filename, exclude_patterns,
                   sinkOpen, opened, visited, files_added, files_excluded>>

\* line 140 raising FileExistsError: the output path, or one of its
\* ancestors, is a regular file. Nothing catches it; the interpreter exits 1.
MkdirRaises ==
    /\ pc = "prepare"
    /\ output_dir # <<>>
    /\ Ancestry(output_dir) \cap files # {}
    /\ result' = "raised"
    /\ exit_code' = "1"
    /\ pc' = "done"
    /\ UNCHANGED <<mvars, fsvars, output_dir, cwd, valid, skill_filename,
                   exclude_patterns, sinkOpen, opened, visited, files_added,
                   files_excluded>>

\* lines 137-149: the output directory is made, the archive's path fixed,
\* the rules read
Prepare ==
    /\ pc = "prepare"
    /\ output_dir # <<>> => Ancestry(output_dir) \cap files = {}
    /\ dirs' = IF output_dir # <<>> THEN dirs \cup Ancestry(output_dir) ELSE dirs
    /\ skill_filename' = ArchiveFile(output_dir, cwd)
    /\ exclude_patterns' = read_skillignore(SkillIgnorePath \in dirs \cup files, rules)
    /\ pc' = "open"
    /\ UNCHANGED <<mvars, files, rules, zip, fs0, output_dir, cwd, valid, sinkOpen,
                   opened, visited, files_added, files_excluded, result, exit_code>>

\* line 153: the archive is created or truncated, lines 154-155
OpenSink ==
    /\ pc = "open"
    /\ files' = files \cup {skill_filename}
    /\ zip' = [gen |-> "new", members |-> EmptyBag]
    /\ sinkOpen' = TRUE
    /\ opened' = opened + 1
    /\ files_added' = 0
    /\ files_excluded' = 0
    /\ pc' = "walk"
    /\ UNCHANGED <<mvars, dirs, rules, fs0, output_dir, cwd, valid, skill_filename,
                   exclude_patterns, visited, result, exit_code>>

\* line 153 raising (permission denied, ...): lines 178-180
OpenRaises ==
    /\ pc = "open"
    /\ ReturnNone
    /\ UNCHANGED <<mvars, fsvars, output_dir, cwd, valid, skill_filename,
                   exclude_patterns, sinkOpen, opened, visited, files_added,
                   files_excluded>>

\* what skill_path.rglob("*") yields: every entry below skill_path
Entries == {p \in dirs \cup files : IsPrefix(SkillPath, p) /\ p # SkillPath}

\* rglob yields an entry once, a directory before what it holds
CanVisit(p) ==
    /\ pc = "walk"
    /\ p \in Entries \ visited
    /\ Parent(p) = SkillPath \/ Parent(p) \in visited

\* mutant: relative to skill_path, not to its parent
Arcname_inner(file_path) == SubSeq(file_path, Len(SkillPath) + 1, Len(file_path))

\* line 166: file_path.relative_to(skill_path.parent), as its components
Arcname(file_path) == SubSeq(file_path, Len(SkillPath), Len(file_path))

\* line 159 false: a directory is passed over
VisitDirectory(p) ==
    /\ CanVisit(p)
    /\ p \notin files
    /\ visited' = visited \cup {p}
    /\ UNCHANGED <<mvars, fsvars, output_dir, cwd, pc, valid, skill_filename,
                   exclude_patterns, sinkOpen, opened, files_added, files_excluded,
                   result, exit_code>>

\* mutant: continue without counting
VisitExcluded_uncounted(p) ==
    /\ CanVisit(p)
    /\ p \in files
    /\ should_exclude(p, SkillPath, exclude_patterns)
    /\ visited' = visited \cup {p}
    /\ UNCHANGED <<mvars, fsvars, output_dir, cwd, pc, valid, skill_filename,
                   exclude_patterns, sinkOpen, opened, files_added, files_excluded,
                   result, exit_code>>

\* lines 161-163
VisitExcluded(p) ==
    /\ CanVisit(p)
    /\ p \in files
    /\ should_exclude(p, SkillPath, exclude_patterns)
    /\ visited' = visited \cup {p}
    /\ files_excluded' = files_excluded + 1
    /\ UNCHANGED <<mvars, fsvars, output_dir, cwd, pc, valid, skill_filename,
                   exclude_patterns, sinkOpen, opened, files_added, result, exit_code>>

\* lines 166-169
WriteFile(p) ==
    /\ CanVisit(p)
    /\ p \in files
    /\ ~should_exclude(p, SkillPath, exclude_patterns)
    /\ visited' = visited \cup {p}
    /\ zip' = [zip EXCEPT !.members = @ (+) SetToBag({Arcname(p)})]
    /\ files_added' = files_added + 1
    /\ UNCHANGED <<mvars, dirs, files, rules, fs0, output_dir, cwd, pc, valid,
                   skill_filename, exclude_patterns, sinkOpen, opened, files_excluded,
                   result, exit_code>>

\* mutant: no with statement, the exception leaves the archive open
WriteRaises_leak(p) ==
    /\ CanVisit(p)
    /\ p \in files
    /\ ~should_exclude(p, SkillPath, exclude_patterns)
    /\ visited' = visited \cup {p}
    /\ ReturnNone
    /\ UNCHANGED <<mvars, fsvars, output_dir, cwd, valid, skill_filename,
                   exclude_patterns, sinkOpen, opened, files_added, files_excluded>>

\* line 167 raising (unreadable file, disk full): the with statement closes
\* the archive, lines 178-180 return None
WriteRaises(p) ==
    /\ CanVisit(p)
    /\ p \in files
    /\ ~should_exclude(p, SkillPath, exclude_patterns)
    /\ visited' = visited \cup {p}
    /\ sinkOpen' = FALSE
    /\ ReturnNone
    /\ UNCHANGED <<mvars, fsvars, output_dir, cwd, valid, skill_filename,
                   exclude_patterns, opened, files_added, files_excluded>>

\* the walk is over: the with statement closes the archive, lines 174-176
\* return its path and main exits with 0
CloseSink ==
    /\ pc = "walk"
    /\ Entries \subseteq visited
    /\ sinkOpen' = FALSE
    /\ result' = "path"
    /\ exit_code' = "0"
    /\ pc' = "done"
    /\ UNCHANGED <<mvars, fsvars, output_dir, cwd, valid, skill_filename,
                   exclude_patterns, opened, visited, files_added, files_excluded>>

\* ZipFile.close() raising while it writes the central directory: the file
\* is closed all the same, lines 178-180 return None
CloseRaises ==
    /\ pc = "walk"
    /\ Entries \subseteq visited
    /\ sinkOpen' = FALSE
    /\ ReturnNone
    /\ UNCHANGED <<mvars, fsvars, output_dir, cwd, valid, skill_filename,
                   exclude_patterns, opened, visited, files_added, files_excluded>>

Next ==
    \/ CheckSource
    \/ Validate
    \/ MkdirRaises
    \/ Prepare
    \/ OpenSink
    \/ OpenRaises
    \/ \E p \in Entries : VisitDirectory(p)
    \/ \E p \in Entries : VisitExcluded(p)
    \/ \E p \in Entries : WriteFile(p)
    \/ \E p \in Entries : WriteRaises(p)
    \/ CloseSink
    \/ CloseRaises

Spec == Init /\ [][Next]_vars

(***************************************************************************)
(* Claims about package_skill                                              *)
(***************************************************************************)
\* the regular files below the source directory
SourceFiles == {p \in files : IsPrefix(SkillPath, p) /\ p # SkillPath}
SourceFiles0 == {p \in fs0.files : IsPrefix(SkillPath, p) /\ p # SkillPath}

\* where the archive goes, from the arguments alone
OutputInsideSource == IsPrefix(SkillPath, OutputPath(output_dir, cwd))

\* the source path is missing, is no directory, lacks SKILL.md, or the
\* validator said no
GateFails ==
    \/ SkillPath \notin fs0.dirs
    \/ DescriptorPath \notin fs0.dirs \cup fs0.files
    \/ valid = "False"

\* C1: when the source path does not exist, is not a directory, lacks
\* SKILL.md or fails validation, packaging fails with exit code 1 and the
\* archive is never opened: no file is created, an archive already at the
\* output path is left as it was.
C1_ValidationGate ==
    GateFails =>
        /\ pc \in {"start", "done"}
        /\ pc = "done" => (result = "None" /\ exit_code = "1")
        /\ opened = 0 /\ ~sinkOpen
        /\ files = fs0.files /\ dirs = fs0.dirs /\ zip = fs0.zip

\* C1's case: validation failed with an earlier archive at the output path
C1_Witness ==
    /\ pc = "done" /\ valid = "False" /\ exit_code = "1"
    /\ fs0.zip.gen = "old" /\ zip.gen = "old"

\* C2: during the walk the two counters sum to the number of regular files
\* visited so far, and after a successful run to the number of regular files
\* below the source directory.
C2_CountersSum ==
    /\ (pc = "walk" \/ result = "path") =>
           files_added + files_excluded = Cardinality(visited \cap files)
    /\ result = "path" => files_added + files_excluded = Cardinality(SourceFiles)

\* C2's case: a finished run that added and excluded files
C2_Witness == result = "path" /\ files_added >= 2 /\ files_excluded >= 1

\* the scenario: my-skill/ holds SKILL.md, notes.md, build/out.bin and a
\* rules file whose only pattern is build/, the output lies outside
Scenario ==
    /\ SourceFiles0 = TreeFiles("scenario") \cup {SkillIgnorePath}
    /\ rules = [readable |-> TRUE, content |-> RULES_BUILD]
    /\ ~OutputInsideSource

\* C3 as stated: the scenario's archive holds my-skill/SKILL.md and
\* my-skill/notes.md, with filesAdded = 2 and filesExcluded = 1.
C3_ScenarioTwoMembers ==
    (Scenario /\ result = "path") =>
        /\ zip.members = SetToBag({<<MY_SKILL, SKILL_MD>>, <<MY_SKILL, NOTES_MD>>})
        /\ files_added = 2
        /\ files_excluded = 1

\* C3 amended: the rules file is a regular file of the directory too and
\* build/ does not exclude it: the archive holds my-skill/SKILL.md,
\* my-skill/notes.md and my-skill/.skillignore, my-skill/build/out.bin is
\* excluded, filesAdded = 3 and filesExcluded = 1.
C3_ScenarioThreeMembers ==
    (Scenario /\ result = "path") =>
        /\ exclude_patterns = <<Append(BUILD, SLASH)>>
        /\ zip.members = SetToBag({<<MY_SKILL, SKILL_MD>>, <<MY_SKILL, NOTES_MD>>,
                                   <<MY_SKILL, SKILLIGNORE>>})
        /\ files_added = 3
        /\ files_excluded = 1

\* C3's case: the scenario packaged
C3_Witness == Scenario /\ result = "path" /\ exit_code = "0"

\* C4: after a successful run the archive's entries are the regular files
\* below the source directory that should_exclude lets through, each once,
\* named by the base name of the source directory followed by the file's
\* path below it.
C4_Membership ==
    result = "path" =>
        zip.members =
            SetToBag({<<Name(SkillPath)>> \o SubSeq(p, Len(SkillPath) + 1, Len(p)) :
                      p \in {f \in SourceFiles :
                                ~should_exclude(f, SkillPath, exclude_patterns)}})

\* C4's case: a finished run over files kept, a file excluded and a directory
C4_Witness ==
    /\ result = "path" /\ files_excluded >= 1 /\ files_added >= 2
    /\ visited \cap dirs # {}

\* the lines of the rules file, each with its place: the text between two
\* line breaks
LineStarts(c) == {1} \cup {i + 1 : i \in {j \in 1..Len(c) : c[j] = "\n"}}
LineAt(c, start) ==
    LET ends == {j \in start..Len(c) : c[j] = "\n"}
        stop == IF ends = {} THEN Len(c) + 1
                ELSE CHOOSE j \in ends : \A k \in ends : j <= k
    IN SubSeq(c, start, stop - 1)

\* s without the white space around it
Trimmed(s) ==
    LET black == {i \in 1..Len(s) : s[i] \notin {" ", "\t", "\n"}}
    IN IF black = {} THEN <<>>
       ELSE SubSeq(s, CHOOSE i \in black : \A k \in black : i <= k,
                      CHOOSE i \in black : \A k \in black : i >= k)

\* the trimmed lines that are neither empty nor comments, in file order
ExpectedPatterns(c) ==
    LET kept == {st \in LineStarts(c) :
                    /\ Trimmed(LineAt(c, st)) # <<>>
                    /\ Head(Trimmed(LineAt(c, st))) # "#"}
    IN [k \in 1..Cardinality(kept) |->
            Trimmed(LineAt(c, CHOOSE st \in kept :
                                 Cardinality({t \in kept : t < st}) = k - 1))]

\* C8: the patterns loaded are the trimmed, non-empty, non-comment lines of
\* the rules file in file order, duplicates kept; none when the file is
\* absent or cannot be read; and with no pattern no file is excluded and a
\* successful run adds every regular file.
C8_RuleLoading ==
    pc \in {"open", "walk", "done"} /\ skill_filename # <<>> =>
        /\ exclude_patterns =
               IF SkillIgnorePath \notin fs0.files \/ ~rules.readable THEN <<>>
               ELSE ExpectedPatterns(rules.content)
        /\ exclude_patterns = <<>> =>
               /\ files_excluded = 0
               /\ result = "path" =>
                      /\ files_added = Cardinality(SourceFiles)
                      /\ BagToSet(zip.members) = {Arcname(p) : p \in SourceFiles}

\* C8's case: a rules file with the same pattern twice
C8_Witness ==
    /\ pc = "done" /\ Len(exclude_patterns) = 2
    /\ exclude_patterns[1] = exclude_patterns[2]
    /\ Len(rules.content) > 3

\* C9: an opened archive is closed on every way out of package_skill, a
\* failure of the open or of a write ends the run with exit code 1, nothing
\* is retried, and the archive written so far stays on disk.
C9_ScopedSink ==
    /\ sinkOpen => pc = "walk"
    /\ opened <= 1
    /\ pc = "done" =>
        /\ ~sinkOpen
        /\ exit_code = (IF result = "path" THEN "0" ELSE "1")
        /\ result = "path" =>
               (opened = 1 /\ Entries \subseteq visited
                    /\ BagCardinality(zip.members) = files_added)
        /\ opened = 1 => (skill_filename \in files /\ zip.gen = "new")

\* C9's case: a write failed in the middle of the walk
C9_Witness ==
    /\ pc = "done" /\ result = "None" /\ exit_code = "1" /\ opened = 1
    /\ files_added >= 1 /\ ~(Entries \subseteq visited)
    /\ skill_filename \in files /\ ~sinkOpen

\* C10: wherever the output directory lies, the walk never yields the
\* archive being written: it is neither a member of itself nor counted.
C10_NoSelfInclusion ==
    opened = 1 =>
        /\ skill_filename \notin visited
        /\ ~BagIn(Arcname(skill_filename), zip.members)

====
